---------------------------- MODULE Spec2Model ----------------------------
(* Model of the image combiner (src/src/main.rs, src/src/args.rs).         *)
(*                                                                         *)
(* Four specifications share the variables below:                          *)
(*   SpecAlt   - alternate_pixels / set_rgba on concrete byte vectors      *)
(*   SpecFloat - FloatingImage::new / set_data on concrete byte vectors    *)
(*   SpecDim   - get_smallest_dimensions / standardize_size                *)
(*   Spec      - the pipeline of main, one action per call of main         *)
(* FairSpec is Spec with the fairness of a program that runs to its end.   *)
(* Vec<u8> is a sequence of bytes; Rust's 0-based index k is k+1 here.     *)
EXTENDS Integers, Sequences, FiniteSets, TLC

VARIABLES
    vec_1, vec_2, alt,          \* alternate_pixels: arguments, outcome
    fwidth, fheight, fdata,     \* FloatingImage: arguments of new, set_data
    floating, fresult,          \*   the object, the result of set_data
    dim_1, dim_2, dres, sres,   \* get_smallest_dimensions: arguments, outcomes
    overflow_checks,            \* build profile: TRUE = u32 overflow panics
    pc,                         \* main: the call to make next
    image_1, image_2,           \*   the two decoded images
    output, combined_data,      \*   the FloatingImage, the interleaved data
    error,                      \*   the Err main returns
    log                         \*   history: the calls main has made

vars == <<vec_1, vec_2, alt, fwidth, fheight, fdata, floating, fresult,
          dim_1, dim_2, dres, sres, overflow_checks,
          pc, image_1, image_2, output, combined_data, error, log>>

altVars   == <<vec_1, vec_2, alt>>
floatVars == <<fwidth, fheight, fdata, floating, fresult>>
dimVars   == <<dim_1, dim_2, dres, sres>>
mainVars  == <<pc, image_1, image_2, output, combined_data, error, log>>

(* ------------------------------ bounds ------------------------------ *)
MaxLen == 12                     \* longest byte vector drawn as an input
ByteVals == {0, 255}             \* sample of u8
Bytes(n) == UNION {[1..k -> ByteVals] : k \in 0..n}
\* Vectors whose bytes all differ: base+1, base+2, ...
Ramps(n, bases) == {[k \in 1..m |-> (b + k) % 256] : m \in 0..n, b \in bases}

(* ----------------------- outcomes of a call ------------------------- *)
\* A call has not been made, has returned a value, or has panicked.
NotCalled == [called |-> FALSE, panic |-> FALSE]
Returned(v) == [called |-> TRUE, panic |-> FALSE, val |-> v]
Panicked == [called |-> TRUE, panic |-> TRUE]
Unset == [set |-> FALSE]

(* ------------------- set_rgba and alternate_pixels ------------------ *)
\* Mutation of set_rgba_from: a missing byte is read as 0.
RECURSIVE set_rgba_from_ZeroFill(_, _, _, _)
set_rgba_from_ZeroFill(vec, k, end, rgba) ==
    IF k > end THEN Returned(rgba)
    ELSE set_rgba_from_ZeroFill(vec, k + 1, end,
             Append(rgba, IF k + 1 > Len(vec) THEN 0 ELSE vec[k + 1]))

\* The loop of set_rgba from index k, rgba being what was pushed so far.
RECURSIVE set_rgba_from(_, _, _, _)
set_rgba_from(vec, k, end, rgba) ==
    IF k > end THEN Returned(rgba)
    ELSE IF k + 1 > Len(vec) THEN Panicked            \* vec.get(k) = None
    ELSE set_rgba_from(vec, k + 1, end, Append(rgba, vec[k + 1]))

set_rgba(vec, start, end) == set_rgba_from(vec, start, end, <<>>)

\* Vec::splice(start..=end, repl) with Len(repl) = end - start + 1; the
\* range must lie inside the vector or the call panics.
splice(v, start, end, repl) ==
    IF end + 1 > Len(v) THEN Panicked
    ELSE Returned([k \in 1..Len(v) |->
             IF k - 1 >= start /\ k - 1 <= end THEN repl[k - start] ELSE v[k]])

\* Mutation of SourceAt: every unit is read from the first buffer.
SourceAt_AlwaysFirst(v1, v2, i) == IF i % 4 = 0 THEN v1 ELSE v2

\* The buffer the unit at byte offset i is read from.
SourceAt(v1, v2, i) == IF i % 8 = 0 THEN v1 ELSE v2

\* The while loop of alternate_pixels from offset i.
RECURSIVE alternate_loop(_, _, _, _)
alternate_loop(v1, v2, combined, i) ==
    IF ~(i < Len(v1)) THEN Returned(combined)
    ELSE LET rgba == set_rgba(SourceAt(v1, v2, i), i, i + 3)
         IN IF rgba.panic THEN Panicked
            ELSE LET sp == splice(combined, i, i + 3, rgba.val)
                 IN IF sp.panic THEN Panicked
                    ELSE alternate_loop(v1, v2, sp.val, i + 4)

alternate_pixels(v1, v2) ==
    alternate_loop(v1, v2, [k \in 1..Len(v1) |-> 0], 0)

InitAlt ==
    /\ vec_1 \in Bytes(MaxLen) \cup Ramps(MaxLen, {0, 50})
    /\ vec_2 \in Ramps(MaxLen, {100, 200})
    /\ alt = NotCalled
    \* the variables of the other specifications stay idle
    /\ overflow_checks = FALSE
    /\ fwidth = 0 /\ fheight = 0 /\ fdata = <<>>
    /\ floating = NotCalled /\ fresult = "none"
    /\ dim_1 = <<1, 1>> /\ dim_2 = <<1, 1>>
    /\ dres = NotCalled /\ sres = NotCalled
    /\ pc = "idle" /\ image_1 = Unset /\ image_2 = Unset
    /\ output = Unset /\ combined_data = Unset
    /\ error = "none" /\ log = <<>>

CallAlternatePixels ==
    /\ ~alt.called
    /\ alt' = alternate_pixels(vec_1, vec_2)
    /\ UNCHANGED <<vec_1, vec_2>>

NextAlt ==
    CallAlternatePixels
    /\ UNCHANGED <<floatVars, dimVars, overflow_checks, mainVars>>

(* ------------------------- u32 arithmetic --------------------------- *)
\* Image dimensions are u32.  Every dimension drawn below is at most
\* 2^15, so a product of two of them is at most 2^30 and fits u32; only
\* the further multiplication by 4 can leave the u32 range.
U32Quarter == 2^30                                \* 2^32 / 4
DimVals == {1, 2, 3, 32768}                       \* sides of decoded images
NewDimVals == {0, 1, 2, 32768}                    \* arguments of new

\* height * width * 4 exceeds u32::MAX
CapacityOverflows(width, height) == height * width >= U32Quarter
\* height * width * 4 reduced modulo 2^32
WrappedCapacity(width, height) == ((height * width) % U32Quarter) * 4

\* A buffer length of 4*quads + rest bytes (the RGBA buffers of the
\* largest images are longer than 2^31 - 1 bytes).
ByteLen(q, r) == [quads |-> q, rest |-> r]
SeqLen(data) == ByteLen(Len(data) \div 4, Len(data) % 4)
\* len > capacity
LenExceeds(len, capacity) ==
    \/ len.quads > capacity \div 4
    \/ len.quads = capacity \div 4 /\ len.rest > capacity % 4

(* -------------------------- FloatingImage --------------------------- *)
\* FloatingImage::new.  With overflow checks the multiplication panics
\* when it overflows, without them it wraps.  Vec::with_capacity of u8
\* reserves exactly the capacity asked for.
FloatingImage_new(width, height, name, checks) ==
    IF CapacityOverflows(width, height) /\ checks THEN Panicked
    ELSE Returned([width |-> width, height |-> height,
                   capacity |-> WrappedCapacity(width, height),
                   data |-> <<>>, name |-> name])

\* FloatingImage::set_data; len is data.len().
set_data(self, data, len) ==
    IF LenExceeds(len, self.capacity)
    THEN [self |-> self, result |-> "BufferTooSmall"]
    ELSE [self |-> [self EXCEPT !.data = data], result |-> "Ok"]

InitFloat ==
    /\ fwidth \in NewDimVals
    /\ fheight \in NewDimVals
    /\ fdata \in Bytes(MaxLen)
    /\ overflow_checks \in BOOLEAN
    /\ floating = NotCalled
    /\ fresult = "none"
    \* the variables of the other specifications stay idle
    /\ vec_1 = <<>> /\ vec_2 = <<>> /\ alt = NotCalled
    /\ dim_1 = <<1, 1>> /\ dim_2 = <<1, 1>>
    /\ dres = NotCalled /\ sres = NotCalled
    /\ pc = "idle" /\ image_1 = Unset /\ image_2 = Unset
    /\ output = Unset /\ combined_data = Unset
    /\ error = "none" /\ log = <<>>

CallNew ==
    /\ ~floating.called
    /\ floating' = FloatingImage_new(fwidth, fheight, "out", overflow_checks)
    /\ UNCHANGED <<fwidth, fheight, fdata, fresult>>

CallSetData ==
    /\ floating.called
    /\ ~floating.panic
    /\ fresult = "none"
    /\ LET r == set_data(floating.val, fdata, SeqLen(fdata))
       IN /\ floating' = Returned(r.self)
          /\ fresult' = r.result
    /\ UNCHANGED <<fwidth, fheight, fdata>>

NextFloat ==
    /\ CallNew \/ CallSetData
    /\ UNCHANGED <<altVars, dimVars, overflow_checks, mainVars>>

(* --------------- get_smallest_dimensions, standardize_size ---------- *)
\* Mutation of get_smallest_dimensions: pix_2 is taken from the second pair.
get_smallest_dimensions_SecondPair(d1, d2) ==
    LET pix_1 == d1[1] * d1[2]
        pix_2 == d2[1] * d2[2]
    IN IF pix_1 < pix_2 THEN d1 ELSE d2

get_smallest_dimensions(d1, d2) ==
    LET pix_1 == d1[1] * d1[2]
        pix_2 == d1[1] * d1[2]
    IN IF pix_1 < pix_2 THEN d1 ELSE d2

\* A decoded image: its dimensions and its format tag.  Two history
\* fields: the dimensions it was decoded with, and how many times
\* resize_exact was applied to it.
Image(d, f) == [dims |-> d, format |-> f, decoded |-> d, resized |-> 0]
resize_exact(image, width, height) ==
    [image EXCEPT !.dims = <<width, height>>, !.resized = @ + 1]

\* Mutation of standardize_size: the test looks at image_1's dimensions.
standardize_size_TestFirst(i1, i2) ==
    LET d == get_smallest_dimensions(i1.dims, i2.dims)
    IN IF i1.dims = d
       THEN <<resize_exact(i1, d[1], d[2]), i2>>
       ELSE <<i1, resize_exact(i2, d[1], d[2])>>

\* Mutation of standardize_size: an image that has the target's
\* dimensions is never resized.
standardize_size_SkipEqual(i1, i2) ==
    LET d == get_smallest_dimensions(i1.dims, i2.dims)
    IN <<IF i1.dims = d THEN i1 ELSE resize_exact(i1, d[1], d[2]),
         IF i2.dims = d THEN i2 ELSE resize_exact(i2, d[1], d[2])>>

standardize_size(i1, i2) ==
    LET d == get_smallest_dimensions(i1.dims, i2.dims)
    IN IF i2.dims = d
       THEN <<resize_exact(i1, d[1], d[2]), i2>>
       ELSE <<i1, resize_exact(i2, d[1], d[2])>>

InitDim ==
    /\ dim_1 \in DimVals \X DimVals
    /\ dim_2 \in DimVals \X DimVals
    /\ dres = NotCalled
    /\ sres = NotCalled
    \* the variables of the other specifications stay idle
    /\ overflow_checks = FALSE
    /\ vec_1 = <<>> /\ vec_2 = <<>> /\ alt = NotCalled
    /\ fwidth = 0 /\ fheight = 0 /\ fdata = <<>>
    /\ floating = NotCalled /\ fresult = "none"
    /\ pc = "idle" /\ image_1 = Unset /\ image_2 = Unset
    /\ output = Unset /\ combined_data = Unset
    /\ error = "none" /\ log = <<>>

CallGetSmallestDimensions ==
    /\ ~dres.called
    /\ dres' = Returned(get_smallest_dimensions(dim_1, dim_2))
    /\ UNCHANGED <<dim_1, dim_2, sres>>

CallStandardizeSize ==
    /\ ~sres.called
    /\ sres' = Returned(standardize_size(Image(dim_1, "png"), Image(dim_2, "png")))
    /\ UNCHANGED <<dim_1, dim_2, dres>>

NextDim ==
    /\ CallGetSmallestDimensions \/ CallStandardizeSize
    /\ UNCHANGED <<altVars, floatVars, overflow_checks, mainVars>>

(* ------------------------------- main ------------------------------- *)
FormatVals == {"png", "jpeg"}
Images == {Image(d, f) : d \in DimVals \X DimVals, f \in FormatVals}

\* The errors find_image_from_path returns.
FindErrors ==
    {"UnableToReadImageFromPath", "UnableToFormatImage", "UnableToDecodeImage"}

\* Length of image.to_rgba8().into_vec(): 4 bytes per pixel.
RgbaLen(image) == ByteLen(image.dims[1] * image.dims[2], 0)

\* Largest odd number below n (n >= 2).
LastOddBelow(n) == IF n % 2 = 0 THEN n - 1 ELSE n - 2

\* alternate_pixels on buffer lengths: the unit at offset 4u is read from
\* vec_1 for even u and from vec_2 for odd u and spliced into a buffer as
\* long as vec_1; a unit that is not whole in its source or in the
\* combined buffer panics.
alternate_pixels_len(l1, l2) ==
    IF l1.rest > 0 \/ (l1.quads >= 2 /\ LastOddBelow(l1.quads) >= l2.quads)
    THEN Panicked
    ELSE Returned([len |-> l1])

combine_images(i1, i2) == alternate_pixels_len(RgbaLen(i1), RgbaLen(i2))

\* return Err(e)
Fail(e) == pc' = "failed" /\ error' = e

Init ==
    /\ pc = "args"
    /\ overflow_checks \in BOOLEAN
    /\ image_1 = Unset /\ image_2 = Unset
    /\ output = Unset /\ combined_data = Unset
    /\ error = "none"
    /\ log = <<>>
    \* the variables of the other specifications stay idle
    /\ vec_1 = <<>> /\ vec_2 = <<>> /\ alt = NotCalled
    /\ fwidth = 0 /\ fheight = 0 /\ fdata = <<>>
    /\ floating = NotCalled /\ fresult = "none"
    /\ dim_1 = <<1, 1>> /\ dim_2 = <<1, 1>>
    /\ dres = NotCalled /\ sres = NotCalled

\* Args::new: nth(n).unwrap() panics when an argument is missing.
ArgsNew ==
    /\ pc = "args"
    /\ \E present \in BOOLEAN : pc' = IF present THEN "find_1" ELSE "panicked"
    /\ log' = Append(log, "Args::new")
    /\ UNCHANGED <<image_1, image_2, output, combined_data, error>>

\* find_image_from_path(args.image_1)?: the file system and the codec
\* decide the outcome.
FindImage1 ==
    /\ pc = "find_1"
    /\ log' = Append(log, "find_image_1")
    /\ \E r \in FindErrors \cup {"Ok"}, im \in Images :
          IF r = "Ok" THEN /\ image_1' = im
                           /\ pc' = "find_2"
                           /\ error' = error
                      ELSE /\ Fail(r)
                           /\ image_1' = image_1
    /\ UNCHANGED <<image_2, output, combined_data>>

\* Mutation of FindImage2: an error is recorded and main goes on with a
\* copy of the first image.
FindImage2_GoOn ==
    /\ pc = "find_2"
    /\ log' = Append(log, "find_image_2")
    /\ \E r \in FindErrors \cup {"Ok"}, im \in Images :
          IF r = "Ok" THEN /\ image_2' = im
                           /\ pc' = "format_check"
                           /\ error' = error
                      ELSE /\ image_2' = image_1
                           /\ pc' = "format_check"
                           /\ error' = r
    /\ UNCHANGED <<image_1, output, combined_data>>

\* find_image_from_path(args.image_2)?
FindImage2 ==
    /\ pc = "find_2"
    /\ log' = Append(log, "find_image_2")
    /\ \E r \in FindErrors \cup {"Ok"}, im \in Images :
          IF r = "Ok" THEN /\ image_2' = im
                           /\ pc' = "format_check"
                           /\ error' = error
                      ELSE /\ Fail(r)
                           /\ image_2' = image_2
    /\ UNCHANGED <<image_1, output, combined_data>>

\* Mutation of FormatCheck: the formats are not compared.
FormatCheck_Skip ==
    /\ pc = "format_check"
    /\ log' = Append(log, "format_check")
    /\ pc' = "standardize" /\ error' = error
    /\ UNCHANGED <<image_1, image_2, output, combined_data>>

\* if image_1_format != image_2_format { return Err(DifferentImageFormats) }
FormatCheck ==
    /\ pc = "format_check"
    /\ log' = Append(log, "format_check")
    /\ IF image_1.format # image_2.format
       THEN Fail("DifferentImageFormats")
       ELSE pc' = "standardize" /\ error' = error
    /\ UNCHANGED <<image_1, image_2, output, combined_data>>

StandardizeSize ==
    /\ pc = "standardize"
    /\ log' = Append(log, "standardize_size")
    /\ LET r == standardize_size(image_1, image_2)
       IN image_1' = r[1] /\ image_2' = r[2]
    /\ pc' = "new"
    /\ UNCHANGED <<output, combined_data, error>>

NewFloatingImage ==
    /\ pc = "new"
    /\ log' = Append(log, "FloatingImage::new")
    /\ LET r == FloatingImage_new(image_1.dims[1], image_1.dims[2], "out",
                                  overflow_checks)
       IN IF r.panic THEN pc' = "panicked" /\ output' = output
                     ELSE pc' = "combine" /\ output' = r.val
    /\ UNCHANGED <<image_1, image_2, combined_data, error>>

CombineImages ==
    /\ pc = "combine"
    /\ log' = Append(log, "combine_images")
    /\ LET r == combine_images(image_1, image_2)
       IN IF r.panic THEN pc' = "panicked" /\ combined_data' = combined_data
                     ELSE pc' = "set_data" /\ combined_data' = r.val
    /\ UNCHANGED <<image_1, image_2, output, error>>

\* output.set_data(combined_data)?
SetData ==
    /\ pc = "set_data"
    /\ log' = Append(log, "set_data")
    /\ LET r == set_data(output, combined_data, combined_data.len)
       IN /\ output' = r.self
          /\ IF r.result = "Ok" THEN pc' = "save" /\ error' = error
                                ELSE Fail(r.result)
    /\ UNCHANGED <<image_1, image_2, combined_data>>

\* image::save_buffer_with_format: the encoder decides the outcome.
SaveBuffer ==
    /\ pc = "save"
    /\ log' = Append(log, "save_buffer_with_format")
    /\ \E saved \in BOOLEAN :
          IF saved THEN pc' = "done" /\ error' = error
                   ELSE Fail("UnableToSaveImage")
    /\ UNCHANGED <<image_1, image_2, output, combined_data>>

Main ==
    \/ ArgsNew \/ FindImage1 \/ FindImage2 \/ FormatCheck \/ StandardizeSize
    \/ NewFloatingImage \/ CombineImages \/ SetData \/ SaveBuffer

Next == Main /\ UNCHANGED <<altVars, floatVars, dimVars, overflow_checks>>

(* ------------------------- specifications --------------------------- *)
Spec == Init /\ [][Next]_vars
\* main is one thread that runs every call to its end.
FairSpec == Spec /\ WF_vars(Next)
SpecAlt == InitAlt /\ [][NextAlt]_vars
SpecFloat == InitFloat /\ [][NextFloat]_vars
SpecDim == InitDim /\ [][NextDim]_vars

(* ----------------------------- properties --------------------------- *)
Ran(call) == \E k \in 1..Len(log) : log[k] = call
IsPrefix(s, t) == Len(s) <= Len(t) /\ \A k \in 1..Len(s) : s[k] = t[k]
IsUnset(x) == "set" \in DOMAIN x
PixelCount(d) == d[1] * d[2]

\* The length-only alternate_pixels of the pipeline agrees with
\* alternate_pixels on byte vectors.
LengthAbstraction ==
    alt.called =>
        LET r == alternate_pixels_len(SeqLen(vec_1), SeqLen(vec_2))
        IN /\ r.panic = alt.panic
           /\ ~alt.panic => r.val.len = SeqLen(alt.val)

\* C1: for buffers a and b of equal length, a multiple of 4,
\* alternate_pixels(a, b) returns a buffer of that length whose pixel p
\* (bytes 4p..4p+3) is a's pixel p when p is even and b's when p is odd.
C1_Interleave ==
    (alt.called /\ Len(vec_1) = Len(vec_2) /\ Len(vec_1) % 4 = 0) =>
        /\ ~alt.panic
        /\ Len(alt.val) = Len(vec_1)
        /\ \A k \in 1..Len(vec_1) :
              alt.val[k] = IF ((k - 1) \div 4) % 2 = 0 THEN vec_1[k] ELSE vec_2[k]

C1_Witness ==
    /\ alt.called /\ ~alt.panic
    /\ Len(vec_1) = 12 /\ Len(vec_2) = 12
    /\ alt.val # vec_1 /\ alt.val # vec_2

\* C8: when a 4-byte unit at a processed offset i needs a byte beyond the
\* end of the buffer selected for it (a for even i/4, b for odd i/4), the
\* call panics; it returns no buffer.
C8_ShortSourcePanics ==
    (/\ alt.called
     /\ \E i \in 0..(Len(vec_1) - 1) :
           /\ i % 4 = 0
           /\ i + 3 >= Len(IF (i \div 4) % 2 = 0 THEN vec_1 ELSE vec_2))
    => alt.panic

C8_Witness ==
    alt.called /\ alt.panic /\ Len(vec_1) = 12 /\ Len(vec_2) = 7

\* len > width * height * 4, in unbounded integers.
LenExceedsArea(len, width, height) ==
    \/ len.quads > width * height
    \/ len.quads = width * height /\ len.rest > 0

\* C3: after FloatingImage::new(width, height, name), set_data(data)
\* returns BufferTooSmall exactly when data.length > width*height*4, and
\* otherwise succeeds and stores data unchanged.
C3_TooSmallIffLonger ==
    fresult # "none" =>
        /\ fresult = "BufferTooSmall"
              <=> LenExceedsArea(SeqLen(fdata), fwidth, fheight)
        /\ fresult # "BufferTooSmall" =>
              fresult = "Ok" /\ floating.val.data = fdata

\* C4: get_smallest_dimensions returns dim_1 when dim_1 has strictly
\* fewer pixels than dim_2, and dim_2 otherwise.
C4_ReturnsSmaller ==
    dres.called =>
        dres.val = IF PixelCount(dim_1) < PixelCount(dim_2) THEN dim_1 ELSE dim_2

C6_OnlyDifferingResized ==
    sres.called =>
        \A n \in {1, 2} :
            sres.val[n].decoded = get_smallest_dimensions(dim_1, dim_2)
                => sres.val[n].resized = 0

\* C6, amended: standardize_size applies resize_exact to exactly one
\* image: to image_1 when image_2 has the target's dimensions, to image_2
\* otherwise, and the other image is returned unchanged.  The resized
\* image already has the target's dimensions only when both images have
\* the same dimensions.
C6_ExactlyOneResized ==
    sres.called =>
        LET t == get_smallest_dimensions(dim_1, dim_2)
            r1 == sres.val[1]
            r2 == sres.val[2]
        IN /\ r1.resized + r2.resized = 1
           /\ r1.resized = 1 <=> dim_2 = t
           /\ r1.resized = 0 => r1 = Image(dim_1, "png")
           /\ r2.resized = 0 => r2 = Image(dim_2, "png")
           /\ r1.dims = t /\ r2.dims = t
           /\ \A n \in {1, 2} :
                 (sres.val[n].resized = 1 /\ sres.val[n].decoded = t)
                     => dim_1 = dim_2

C6_Witness ==
    /\ sres.called
    /\ dim_1 = dim_2
    /\ sres.val[1].resized = 1 /\ sres.val[2].resized = 0

\* C5: after standardize_size both images have the width and height of
\* the reconciled target, so the two RGBA buffers given to
\* alternate_pixels have the same length, target_width*target_height*4.
C5_SameSizeAfterStandardize ==
    Ran("standardize_size") =>
        LET t == get_smallest_dimensions(image_1.decoded, image_2.decoded)
        IN /\ image_1.dims = t /\ image_2.dims = t
           /\ RgbaLen(image_1) = RgbaLen(image_2)
           /\ RgbaLen(image_1) = ByteLen(t[1] * t[2], 0)
           /\ Ran("combine_images") => pc # "panicked"

C5_Witness ==
    /\ pc = "set_data"
    /\ image_1.decoded = <<1, 1>> /\ image_2.decoded = <<3, 3>>
    /\ image_1.dims = <<3, 3>> /\ image_2.dims = <<3, 3>>

\* Both inputs were decoded and their format tags differ.
FormatsDiffer ==
    /\ pc = "format_check" \/ Ran("format_check")
    /\ image_1.format # image_2.format

\* C2: when both inputs decode and their format tags differ, the run
\* ends with DifferentImageFormats, and no resize, no interleave, no
\* allocation of the output and no encoder call happens in it.
C2_DifferentFormatsStop ==
    /\ [](FormatsDiffer =>
            /\ pc \in {"format_check", "failed"}
            /\ pc = "failed" => error = "DifferentImageFormats"
            /\ ~Ran("standardize_size") /\ ~Ran("FloatingImage::new")
            /\ ~Ran("combine_images") /\ ~Ran("set_data")
            /\ ~Ran("save_buffer_with_format")
            /\ image_1.resized = 0 /\ image_2.resized = 0
            /\ IsUnset(output) /\ IsUnset(combined_data))
    /\ FormatsDiffer ~> (pc = "failed" /\ error = "DifferentImageFormats")

C2_Witness ==
    FormatsDiffer /\ pc = "failed" /\ error = "DifferentImageFormats"

\* The calls of main, in the order of the source.
CallOrder ==
    <<"Args::new", "find_image_1", "find_image_2", "format_check",
      "standardize_size", "FloatingImage::new", "combine_images", "set_data",
      "save_buffer_with_format">>

\* The errors a call of main can end the run with.
ErrorsOf(call) ==
    CASE call \in {"find_image_1", "find_image_2"} -> FindErrors
      [] call = "format_check" -> {"DifferentImageFormats"}
      [] call = "set_data" -> {"BufferTooSmall"}
      [] call = "save_buffer_with_format" -> {"UnableToSaveImage"}
      [] OTHER -> {}

\* C7: the calls of main happen in source order, each at most once; the
\* encoder is called only after every earlier call succeeded; a failed
\* call ends the run with its own error and nothing runs after it.
C7_FailuresTerminal ==
    /\ [](/\ IsPrefix(log, CallOrder)
          /\ pc = "failed" => error \in ErrorsOf(log[Len(log)])
          /\ pc # "failed" => error = "none"
          /\ Ran("save_buffer_with_format") =>
                /\ Len(log) = Len(CallOrder)
                /\ output.data = combined_data
                /\ pc \in {"done", "failed"})
    /\ [][/\ pc \notin {"failed", "panicked", "done"}
          /\ log' = Append(log, CallOrder[Len(log) + 1])]_vars

C7_Witness == pc = "done" /\ Ran("save_buffer_with_format") /\ error = "none"

\* C10: whenever main reaches set_data the interleaved data is exactly
\* output.width*output.height*4 bytes long, so BufferTooSmall never
\* happens in main and the encoder gets a buffer of that length.
C10_NeverTooSmall ==
    /\ pc = "set_data" \/ Ran("set_data") =>
          /\ combined_data.len = ByteLen(output.width * output.height, 0)
          /\ error # "BufferTooSmall"
    /\ Ran("save_buffer_with_format") =>
          output.data.len = ByteLen(output.width * output.height, 0)

=============================================================================
